---- MODULE Spec2Model ----
(***************************************************************************)
(* calc-demo: scanner, recursive-descent parser, evaluator and printer of  *)
(* src/calc-demo.cpp, as a state machine of one run of main().             *)
(*                                                                         *)
(* A string is a sequence of one-character strings.  The recursion of the  *)
(* parser is an explicit call stack of frames; every action is a guard on  *)
(* the configuration and a function of it, so that a whole run is also     *)
(* available as the operator RunFrom (the program is deterministic once    *)
(* the input and the build are fixed).                                     *)
(***************************************************************************)
EXTENDS Integers, Sequences, FiniteSets

VARIABLES
    scanner,   \* the Scanner: input_, offset_, literal_, currentToken_
    stack,     \* the calls of addExpr, mulExpr, primaryExpr in progress
    pc,        \* where main is, or how the process ended
    expr,      \* main's expr: the tree parse() returned
    result,    \* what evaluate returned
    out,       \* the lines written to cout
    seen       \* history: the tokens tokenize has stored, with their literals

vars == <<scanner, stack, pc, expr, result, out, seen>>

(***************************************************************************)
(* Bounds                                                                  *)
(***************************************************************************)
\* longest input of the exhaustive family (all strings over Alphabet)
MaxLen == 3
\* most operands of a generated operator chain  a op b op c ...
MaxOperands == 3
\* most parenthesis pairs around a generated wrapped literal
MaxWrap == 2
\* width in bits of the modelled int
IntBits == 8
\* most calls made on a scanner beyond one per character of its input
MaxEofCalls == 2

INT_MAX == 2 ^ (IntBits - 1) - 1
INT_MIN == 0 - 2 ^ (IntBits - 1)

(***************************************************************************)
(* Characters and strings                                                  *)
(***************************************************************************)
\* enum class Token
Tokens ==
    {"Illegal", "Eof", "Whitespace", "Plus", "Minus", "Mul", "Div", "NumberLiteral",
     "RndOpen", "RndClose"}

Digits == <<"0", "1", "2", "3", "4", "5", "6", "7", "8", "9">>

isdigit(ch) == \E i \in 1..10 : Digits[i] = ch

DigitValue(ch) == (CHOOSE i \in 1..10 : Digits[i] = ch) - 1

(***************************************************************************)
(* Scanner                                                                 *)
(***************************************************************************)
Scanner(input) ==
    [input |-> input, offset |-> 0, literal |-> <<>>, currentToken |-> "Undefined"]

eof(s) == s.offset >= Len(s.input)

nextChar(s) == [s EXCEPT !.offset = @ + 1]

\* -1 at end of input, the character otherwise
currentChar(s) == IF eof(s) THEN "-1" ELSE s.input[s.offset + 1]

\* the digit branch taking one digit, with if in the place of while
digitLoop_oneDigit(s) ==
    IF ~eof(s) /\ isdigit(currentChar(s))
    THEN nextChar([s EXCEPT !.literal = Append(@, currentChar(s))])
    ELSE s

\* the while loop of the digit branch
RECURSIVE digitLoop(_)
digitLoop(s) ==
    IF ~eof(s) /\ isdigit(currentChar(s))
    THEN digitLoop(nextChar([s EXCEPT !.literal = Append(@, currentChar(s))]))
    ELSE s

\* the branch of an unrecognized character returning without nextChar()
tokenizeOnce_stuckOnIllegal(s0) ==
    LET s == [s0 EXCEPT !.literal = <<>>]
        c == currentChar(s)
    IN  IF eof(s) THEN [tok |-> "Eof", s |-> s]
        ELSE CASE c = " " -> [tok |-> "Whitespace", s |-> nextChar(s)]
               [] c = "+" -> [tok |-> "Plus", s |-> nextChar(s)]
               [] c = "-" -> [tok |-> "Minus", s |-> nextChar(s)]
               [] c = "*" -> [tok |-> "Mul", s |-> nextChar(s)]
               [] c = "/" -> [tok |-> "Div", s |-> nextChar(s)]
               [] c = "(" -> [tok |-> "RndOpen", s |-> nextChar(s)]
               [] c = ")" -> [tok |-> "RndClose", s |-> nextChar(s)]
               [] OTHER   -> IF isdigit(c)
                             THEN [tok |-> "NumberLiteral", s |-> digitLoop(s)]
                             ELSE [tok |-> "Illegal", s |-> s]

\* returns the token and the scanner after the call
tokenizeOnce(s0) ==
    LET s == [s0 EXCEPT !.literal = <<>>]
        c == currentChar(s)
    IN  IF eof(s) THEN [tok |-> "Eof", s |-> s]
        ELSE CASE c = " " -> [tok |-> "Whitespace", s |-> nextChar(s)]
               [] c = "+" -> [tok |-> "Plus", s |-> nextChar(s)]
               [] c = "-" -> [tok |-> "Minus", s |-> nextChar(s)]
               [] c = "*" -> [tok |-> "Mul", s |-> nextChar(s)]
               [] c = "/" -> [tok |-> "Div", s |-> nextChar(s)]
               [] c = "(" -> [tok |-> "RndOpen", s |-> nextChar(s)]
               [] c = ")" -> [tok |-> "RndClose", s |-> nextChar(s)]
               [] OTHER   -> IF isdigit(c)
                             THEN [tok |-> "NumberLiteral", s |-> digitLoop(s)]
                             ELSE [tok |-> "Illegal", s |-> nextChar(s)]

\* the loop of tokenize as an if: one Whitespace token skipped at most
skipWhitespace_once(r) == IF r.tok = "Whitespace" THEN tokenizeOnce(r.s) ELSE r

\* the while loop of tokenize
RECURSIVE skipWhitespace(_)
skipWhitespace(r) ==
    IF r.tok = "Whitespace" THEN skipWhitespace(tokenizeOnce(r.s)) ELSE r

\* tokenize with the whitespace loop left out
tokenize_keepWhitespace(s) ==
    LET r == tokenizeOnce(s) IN [r.s EXCEPT !.currentToken = r.tok]

tokenize(s) ==
    LET r == skipWhitespace(tokenizeOnce(s)) IN [r.s EXCEPT !.currentToken = r.tok]

(***************************************************************************)
(* AST                                                                     *)
(***************************************************************************)
\* an empty unique_ptr<Expr>
Null == [kind |-> "null"]

NumberLiteral(n) == [kind |-> "NumberLiteral", literal |-> n]

BinaryExpr(kind, a, b) == [kind |-> kind, lhs |-> a, rhs |-> b]

BinaryKinds == {"PlusExpr", "MinusExpr", "MulExpr", "DivExpr"}

(***************************************************************************)
(* Configurations: the values of all variables as one record               *)
(***************************************************************************)
Cfg ==
    [scanner |-> scanner, stack |-> stack, pc |-> pc, expr |-> expr,
     result |-> result, out |-> out, seen |-> seen]

Load(c) ==
    /\ scanner' = c.scanner
    /\ stack' = c.stack
    /\ pc' = c.pc
    /\ expr' = c.expr
    /\ result' = c.result
    /\ out' = c.out
    /\ seen' = c.seen

\* an evaluation's outcome: a value, or the process killed by a trap
Val(n) == [kind |-> "value", v |-> n]
Trap == [kind |-> "trap", v |-> 0]
\* nothing evaluated yet
NoResult == [kind |-> "none", v |-> 0]

\* What the build makes of the undefined operations of evaluate: integer
\* division by zero and INT_MIN / -1 kill the process (x86 idiv) or yield a
\* value (AArch64 sdiv: 0, resp. INT_MIN); signed overflow of + - * wraps or
\* traps (-ftrapv).
Builds == [div : {"trap", "quiet"}, overflow : {"wrap", "trap"}]

\* main() before the ExprParser is constructed
InitCfg(input) ==
    [scanner |-> Scanner(input), stack |-> <<>>, pc |-> "start", expr |-> Null,
     result |-> NoResult, out |-> <<>>, seen |-> <<>>]

(***************************************************************************)
(* ExprParser                                                              *)
(***************************************************************************)
currentToken(c) == c.scanner.currentToken

\* history of what the parser was given: each token tokenize stored, with its
\* literal
Observe(c) ==
    [c EXCEPT !.seen = Append(@, <<c.scanner.currentToken, c.scanner.literal>>)]

nextToken(c) == Observe([c EXCEPT !.scanner = tokenize(@)])

Frame(fn) == [fn |-> fn, at |-> "enter", lhs |-> Null]

Top(c) == c.stack[Len(c.stack)]

In(c, fn, at) ==
    /\ c.pc = "parsing"
    /\ c.stack # <<>>
    /\ Top(c).fn = fn
    /\ Top(c).at = at

\* the running function calls fn and will continue at `at`
Call(c, fn, at) ==
    [c EXCEPT !.stack = Append([@ EXCEPT ![Len(@)].at = at], Frame(fn))]

\* the running function returns v: its caller stores it where it was
\* waiting for it (lhs = ..., lhs = make_unique<..>(move(lhs), ...),
\* subExpr = ...); the outermost return is parse()'s, to main
Return(c, v) ==
    LET rest == SubSeq(c.stack, 1, Len(c.stack) - 1)
        n == Len(rest)
        f == rest[n]
        g == CASE f.at = "first" -> [f EXCEPT !.lhs = v, !.at = "loop"]
               [] f.at = "plus"  -> [f EXCEPT !.lhs = BinaryExpr("PlusExpr", f.lhs, v), !.at = "loop"]
               [] f.at = "minus" -> [f EXCEPT !.lhs = BinaryExpr("MinusExpr", f.lhs, v), !.at = "loop"]
               [] f.at = "mul"   -> [f EXCEPT !.lhs = BinaryExpr("MulExpr", f.lhs, v), !.at = "loop"]
               [] f.at = "div"   -> [f EXCEPT !.lhs = BinaryExpr("DivExpr", f.lhs, v), !.at = "loop"]
               [] f.at = "sub"   -> [f EXCEPT !.lhs = v, !.at = "close"]
    IN  IF n = 0
        THEN [c EXCEPT !.stack = <<>>, !.expr = v, !.pc = "evaluate"]
        ELSE [c EXCEPT !.stack = [rest EXCEPT ![n] = g]]

\* the message written to cout instead of cerr
SyntaxError_onCout(c) ==
    [c EXCEPT !.pc = "syntax_error",
              !.out = Append(@, [indent |-> 0, text |-> "Primary expression expected.",
                                 args |-> <<>>])]

\* exit(EXIT_FAILURE) after the message on cerr
SyntaxError(c) == [c EXCEPT !.pc = "syntax_error"]

\* an uncaught exception or a signal ends the process
Fatal(c) == [c EXCEPT !.pc = "fatal"]

\* ExprParser{string{input}}: the Scanner's constructor tokenizes once
ScannerCtorOp(c) == [nextToken(c) EXCEPT !.pc = "parse"]

\* parse() is expr() is addExpr()
ParseCallOp(c) == [c EXCEPT !.pc = "parsing", !.stack = <<Frame("addExpr")>>]

\* auto lhs = mulExpr();
AddExprEnterOp(c) == Call(c, "mulExpr", "first")

\* case Token::Plus with its right operand parsed as a primary only
AddExprPlusOp_primaryRhs(c) == Call(nextToken(c), "primaryExpr", "plus")

\* case Token::Plus: nextToken(); lhs = make_unique<PlusExpr>(move(lhs), mulExpr());
AddExprPlusOp(c) == Call(nextToken(c), "mulExpr", "plus")

\* case Token::Minus
AddExprMinusOp(c) == Call(nextToken(c), "mulExpr", "minus")

\* default: return lhs;
AddExprReturnOp(c) == Return(c, Top(c).lhs)

\* auto lhs = primaryExpr();
MulExprEnterOp(c) == Call(c, "primaryExpr", "first")

\* case Token::Mul with its right operand parsed by a recursive mulExpr
MulExprMulOp_rightAssoc(c) == Call(nextToken(c), "mulExpr", "mul")

\* case Token::Mul: nextToken(); lhs = make_unique<MulExpr>(move(lhs), primaryExpr());
MulExprMulOp(c) == Call(nextToken(c), "primaryExpr", "mul")

\* case Token::Div
MulExprDivOp(c) == Call(nextToken(c), "primaryExpr", "div")

\* default: return lhs;
MulExprReturnOp(c) == Return(c, Top(c).lhs)

\* the decimal value of a digit run
RECURSIVE DecimalValue(_)
DecimalValue(lit) ==
    IF lit = <<>> THEN 0
    ELSE 10 * DecimalValue(SubSeq(lit, 1, Len(lit) - 1)) + DigitValue(lit[Len(lit)])

\* a conversion that keeps the low bits of a value that is no int
stoi_truncates(lit) == [thrown |-> FALSE, v |-> DecimalValue(lit) % (INT_MAX + 1)]

\* std::stoi: the value, or std::out_of_range thrown
stoi(lit) ==
    LET n == DecimalValue(lit)
    IN  IF n > INT_MAX THEN [thrown |-> TRUE, v |-> 0] ELSE [thrown |-> FALSE, v |-> n]

\* case Token::NumberLiteral; nothing catches what stoi throws
PrimaryNumberOp(c) ==
    LET number == stoi(c.scanner.literal)
    IN  IF number.thrown THEN Fatal(c)
        ELSE Return(nextToken(c), NumberLiteral(number.v))

\* case Token::RndOpen without its nextToken()
PrimaryOpenOp_noNextToken(c) == Call(c, "addExpr", "sub")

\* case Token::RndOpen: nextToken(); auto subExpr = expr();
PrimaryOpenOp(c) == Call(nextToken(c), "addExpr", "sub")

\* consumeToken(t): compares the current token with t and exits when they
\* differ; it does not call nextToken()
consumeToken(c, t) == IF currentToken(c) # t THEN SyntaxError(c) ELSE c

\* primaryExpr returning an empty unique_ptr in the place of subExpr
PrimaryCloseOp_dropsSubExpr(c) ==
    LET d == consumeToken(c, "RndClose")
    IN  IF d.pc = "syntax_error" THEN d ELSE Return(d, Null)

\* the check made for the wrong token
PrimaryCloseOp_expectsOpen(c) ==
    LET d == consumeToken(c, "RndOpen")
    IN  IF d.pc = "syntax_error" THEN d ELSE Return(d, Top(d).lhs)

\* consumeToken(Token::RndClose); return subExpr;
PrimaryCloseOp(c) ==
    LET d == consumeToken(c, "RndClose")
    IN  IF d.pc = "syntax_error" THEN d ELSE Return(d, Top(d).lhs)

\* the default branch, returning an empty unique_ptr instead of exiting
PrimaryErrorOp_returnsNull(c) == Return(c, Null)

\* the default branch, recovering with a literal instead of exiting
PrimaryErrorOp_recover(c) == Return(c, NumberLiteral(0))

\* default: cerr << "Primary expression expected.\n"; exit(EXIT_FAILURE);
PrimaryErrorOp(c) == SyntaxError(c)

(***************************************************************************)
(* Calculator                                                              *)
(***************************************************************************)
InRange(n) == INT_MIN <= n /\ n <= INT_MAX

Wrap(n) == ((n - INT_MIN) % (2 ^ IntBits)) + INT_MIN

Abs(n) == IF n < 0 THEN 0 - n ELSE n

\* the quotient of int / int, rounded toward zero
Quotient(a, b) ==
    IF (a < 0) = (b < 0) THEN Abs(a) \div Abs(b) ELSE 0 - (Abs(a) \div Abs(b))

\* the result of + - *, which overflows when it is not an int
Arith(n, b) ==
    IF InRange(n) THEN Val(n)
    ELSE IF b.overflow = "wrap" THEN Val(Wrap(n)) ELSE Trap

\* int / int
Divide(l, r, b) ==
    IF r = 0 THEN (IF b.div = "trap" THEN Trap ELSE Val(0))
    ELSE IF l = INT_MIN /\ r = 0 - 1 THEN (IF b.div = "trap" THEN Trap ELSE Val(INT_MIN))
    ELSE Val(Quotient(l, r))

RECURSIVE evaluate_allPlus(_, _)
\* every binary branch adding its operands
evaluate_allPlus(e, b) ==
    IF e.kind \in BinaryKinds
    THEN LET l == evaluate_allPlus(e.lhs, b)
             r == evaluate_allPlus(e.rhs, b)
         IN  IF l.kind = "trap" \/ r.kind = "trap" THEN Trap ELSE Arith(l.v + r.v, b)
    ELSE IF e.kind = "NumberLiteral" THEN Val(e.literal)
    ELSE Val(0 - 1)

RECURSIVE evaluate(_, _)
evaluate(e, b) ==
    IF e.kind \in BinaryKinds
    THEN LET l == evaluate(e.lhs, b)
             r == evaluate(e.rhs, b)
         IN  IF l.kind = "trap" \/ r.kind = "trap" THEN Trap
             ELSE CASE e.kind = "PlusExpr"  -> Arith(l.v + r.v, b)
                    [] e.kind = "MinusExpr" -> Arith(l.v - r.v, b)
                    [] e.kind = "MulExpr"   -> Arith(l.v * r.v, b)
                    [] e.kind = "DivExpr"   -> Divide(l.v, r.v, b)
    ELSE IF e.kind = "NumberLiteral" THEN Val(e.literal)
    ELSE Val(0 - 1)

(***************************************************************************)
(* AstPrinter: the output is a sequence of lines                           *)
(***************************************************************************)
Line(indent, text, args) == [indent |-> indent, text |-> text, args |-> args]

\* setw(d) in the place of setw(d * 2)
prefix_oneSpacePerLevel(d) == IF d # 0 THEN d ELSE 0

\* setw(d * 2) of one space: d * 2 spaces, and nothing when d is 0
prefix(d) == IF d # 0 THEN d * 2 ELSE 0

\* os << label << ":\n"
Labelled(label) ==
    CASE label = "expr" -> "expr:"
      [] label = "lhs"  -> "lhs:"
      [] label = "rhs"  -> "rhs:"

RECURSIVE print(_, _, _)
RECURSIVE printNode(_, _)

\* print(const Expr&, const string& label, int d)
print(e, label, d) ==
    <<Line(prefix(d), Labelled(label), <<>>)>>
    \o (IF e.kind \in BinaryKinds \cup {"NumberLiteral"} THEN printNode(e, d + 1) ELSE <<>>)

\* the overloads print(const NumberLiteral&, int d), print(const PlusExpr&, int d), ...
printNode(e, d) ==
    IF e.kind = "NumberLiteral"
    THEN <<Line(prefix(d), "NumberLiteral: ", <<e.literal>>)>>
    ELSE <<Line(prefix(d), CASE e.kind = "PlusExpr"  -> "PlusExpr:"
                             [] e.kind = "MinusExpr" -> "MinusExpr:"
                             [] e.kind = "MulExpr"   -> "MulExpr:"
                             [] e.kind = "DivExpr"   -> "DivExpr:", <<>>)>>
         \o print(e.lhs, "lhs", d + 1)
         \o print(e.rhs, "rhs", d + 1)

(***************************************************************************)
(* main                                                                    *)
(***************************************************************************)
\* cout << "Result: " << Calculator{}.evaluate(*expr) << '\n'; a trap kills
\* the process before anything buffered in cout is written
EvaluateOp(c, b) ==
    LET r == evaluate(c.expr, b)
    IN  IF r.kind = "trap" THEN [Fatal(c) EXCEPT !.result = Trap]
        ELSE [c EXCEPT !.result = r, !.pc = "print",
                       !.out = Append(@, Line(0, "Result: ", <<r.v>>))]

\* AstPrinter{cout}.print(*expr, "expr"); return EXIT_SUCCESS;
PrintTreeOp(c) == [c EXCEPT !.out = @ \o print(c.expr, "expr", 0), !.pc = "done"]

(***************************************************************************)
(* The inputs of main: argv[1]                                             *)
(***************************************************************************)
Alphabet == {"0", "9", "+", "-", "*", "/", "(", ")", " ", "$"}

\* every string over Alphabet of at most n characters
RECURSIVE Strings(_)
Strings(n) ==
    IF n = 0 THEN {<<>>}
    ELSE LET S == Strings(n - 1)
         IN  S \cup {Append(t, ch) : t \in {u \in S : Len(u) = n - 1}, ch \in Alphabet}

ChainDigits == {"0", "2", "3"}

Operators == {"+", "-", "*", "/"}

\* d op d op ... d with exactly n operands
RECURSIVE ChainsOf(_)
ChainsOf(n) ==
    IF n = 1 THEN {<<d>> : d \in ChainDigits}
    ELSE {t \o <<op, d>> : t \in ChainsOf(n - 1), op \in Operators, d \in ChainDigits}

Chains(n) == UNION {ChainsOf(k) : k \in 1..n}

\* ( e ) op f  and  f op ( e )
Parenthesised ==
    {<<"(">> \o e \o <<")", op, f>> : e \in Chains(2), op \in Operators, f \in {"2"}}
    \cup {<<f, op, "(">> \o e \o <<")">> : e \in Chains(2), op \in Operators, f \in {"3"}}

RECURSIVE Repeat(_, _)
Repeat(ch, n) == IF n = 0 THEN <<>> ELSE <<ch>> \o Repeat(ch, n - 1)

\* a literal in k pairs of parentheses, every token p spaces from the next
Wrapped ==
    {Repeat(" ", p) \o Repeat("(", k) \o Repeat(" ", p) \o lit \o Repeat(" ", p)
        \o Repeat(")", k) \o Repeat(" ", p) :
        k \in 0..MaxWrap, p \in 0..1, lit \in {<<"7">>, <<"4", "2">>, <<"1", "2", "8">>}}

\* the inputs the specification names, and a few more of their kind
Examples ==
    {<<"2", " ", "+", " ", "3", " ", "*", " ", "4">>,
     <<"(", "2", " ", "+", " ", "3", ")", " ", "*", " ", "4">>,
     <<"8", " ", "-", " ", "3", " ", "-", " ", "2">>,
     <<"7", " ", "/", " ", "2">>,
     <<"1", " ", "/", " ", "0">>,
     <<"(", "2", " ", "+", " ", "3">>,
     <<"+">>,
     <<>>,
     <<"2", "+", "3">>,
     <<"2", " ", "+", " ", "3">>,
     <<" ", " ", "2", " ", " ", "+", " ", " ", "3", " ", " ">>,
     <<"2", " ", "3">>,
     <<"2", " ", ")">>,
     <<"(", "(", "2", ")">>,
     <<"2", " ", "$">>,
     <<"2", " ", "+", " ", "3", " ", "a">>,
     <<"7", "/", "(", "0", "-", "2", ")">>,
     <<"8", "*", "9", "/", "4">>}

Inputs == Strings(MaxLen) \cup Chains(MaxOperands) \cup Parenthesised \cup Wrapped \cup Examples

input == scanner.input

(***************************************************************************)
(* The state machine                                                       *)
(***************************************************************************)
Init ==
    \E i \in Inputs :
        LET c == InitCfg(i)
        IN  /\ scanner = c.scanner
            /\ stack = c.stack
            /\ pc = c.pc
            /\ expr = c.expr
            /\ result = c.result
            /\ out = c.out
            /\ seen = c.seen

ScannerCtor == pc = "start" /\ Load(ScannerCtorOp(Cfg))

ParseCall == pc = "parse" /\ Load(ParseCallOp(Cfg))

AddExprEnter == In(Cfg, "addExpr", "enter") /\ Load(AddExprEnterOp(Cfg))

AddExprPlus ==
    In(Cfg, "addExpr", "loop") /\ currentToken(Cfg) = "Plus" /\ Load(AddExprPlusOp(Cfg))

AddExprMinus ==
    In(Cfg, "addExpr", "loop") /\ currentToken(Cfg) = "Minus" /\ Load(AddExprMinusOp(Cfg))

AddExprReturn ==
    /\ In(Cfg, "addExpr", "loop")
    /\ currentToken(Cfg) \notin {"Plus", "Minus"}
    /\ Load(AddExprReturnOp(Cfg))

MulExprEnter == In(Cfg, "mulExpr", "enter") /\ Load(MulExprEnterOp(Cfg))

MulExprMul ==
    In(Cfg, "mulExpr", "loop") /\ currentToken(Cfg) = "Mul" /\ Load(MulExprMulOp(Cfg))

MulExprDiv ==
    In(Cfg, "mulExpr", "loop") /\ currentToken(Cfg) = "Div" /\ Load(MulExprDivOp(Cfg))

MulExprReturn ==
    /\ In(Cfg, "mulExpr", "loop")
    /\ currentToken(Cfg) \notin {"Mul", "Div"}
    /\ Load(MulExprReturnOp(Cfg))

PrimaryNumber ==
    /\ In(Cfg, "primaryExpr", "enter")
    /\ currentToken(Cfg) = "NumberLiteral"
    /\ Load(PrimaryNumberOp(Cfg))

PrimaryOpen ==
    /\ In(Cfg, "primaryExpr", "enter")
    /\ currentToken(Cfg) = "RndOpen"
    /\ Load(PrimaryOpenOp(Cfg))

PrimaryClose == In(Cfg, "primaryExpr", "close") /\ Load(PrimaryCloseOp(Cfg))

PrimaryError ==
    /\ In(Cfg, "primaryExpr", "enter")
    /\ currentToken(Cfg) \notin {"NumberLiteral", "RndOpen"}
    /\ Load(PrimaryErrorOp(Cfg))

Evaluate == pc = "evaluate" /\ \E b \in Builds : Load(EvaluateOp(Cfg, b))

PrintTree == pc = "print" /\ Load(PrintTreeOp(Cfg))

Next ==
    \/ ScannerCtor
    \/ ParseCall
    \/ AddExprEnter
    \/ AddExprPlus
    \/ AddExprMinus
    \/ AddExprReturn
    \/ MulExprEnter
    \/ MulExprMul
    \/ MulExprDiv
    \/ MulExprReturn
    \/ PrimaryNumber
    \/ PrimaryOpen
    \/ PrimaryClose
    \/ PrimaryError
    \/ Evaluate
    \/ PrintTree

Spec == Init /\ [][Next]_vars

(***************************************************************************)
(* The Scanner alone: a constructed Scanner whose tokenizeOnce and         *)
(* tokenize are called in any order; seen logs what each call returned     *)
(***************************************************************************)
ScanInit ==
    \E i \in Inputs :
        LET s == tokenize(Scanner(i))
        IN  /\ scanner = s
            /\ seen = <<<<s.currentToken, s.literal>>>>
            /\ pc = "scan"
            /\ stack = <<>>
            /\ expr = Null
            /\ result = NoResult
            /\ out = <<>>

MayCall == pc = "scan" /\ Len(seen) < Len(input) + MaxEofCalls

TokenizeOnceCall ==
    /\ MayCall
    /\ LET r == tokenizeOnce(scanner)
       IN  /\ scanner' = r.s
           /\ seen' = Append(seen, <<r.tok, r.s.literal>>)
    /\ UNCHANGED <<stack, pc, expr, result, out>>

TokenizeCall ==
    /\ MayCall
    /\ LET s == tokenize(scanner)
       IN  /\ scanner' = s
           /\ seen' = Append(seen, <<s.currentToken, s.literal>>)
    /\ UNCHANGED <<stack, pc, expr, result, out>>

ScanNext ==
    \/ TokenizeOnceCall
    \/ TokenizeCall

ScanSpec == ScanInit /\ [][ScanNext]_vars

(***************************************************************************)
(* A whole run as an operator: the step of a configuration, repeated       *)
(***************************************************************************)
Terminated(c) == c.pc \in {"done", "syntax_error", "fatal"}

\* parse() has returned its tree to main
Parsed(c) == c.pc \in {"evaluate", "print", "done"} \/ (c.pc = "fatal" /\ c.expr # Null)

Step(c, b) ==
    CASE c.pc = "start" -> ScannerCtorOp(c)
      [] c.pc = "parse" -> ParseCallOp(c)
      [] c.pc = "evaluate" -> EvaluateOp(c, b)
      [] c.pc = "print" -> PrintTreeOp(c)
      [] In(c, "addExpr", "enter") -> AddExprEnterOp(c)
      [] In(c, "addExpr", "loop") ->
            (CASE currentToken(c) = "Plus" -> AddExprPlusOp(c)
               [] currentToken(c) = "Minus" -> AddExprMinusOp(c)
               [] OTHER -> AddExprReturnOp(c))
      [] In(c, "mulExpr", "enter") -> MulExprEnterOp(c)
      [] In(c, "mulExpr", "loop") ->
            (CASE currentToken(c) = "Mul" -> MulExprMulOp(c)
               [] currentToken(c) = "Div" -> MulExprDivOp(c)
               [] OTHER -> MulExprReturnOp(c))
      [] In(c, "primaryExpr", "enter") ->
            (CASE currentToken(c) = "NumberLiteral" -> PrimaryNumberOp(c)
               [] currentToken(c) = "RndOpen" -> PrimaryOpenOp(c)
               [] OTHER -> PrimaryErrorOp(c))
      [] In(c, "primaryExpr", "close") -> PrimaryCloseOp(c)

RECURSIVE RunFrom(_, _)
RunFrom(c, b) == IF Terminated(c) THEN c ELSE RunFrom(Step(c, b), b)

\* the run of main on input i, up to the return of parse() or the exit
RECURSIVE ParseFrom(_)
ParseFrom(c) ==
    IF Terminated(c) \/ c.pc = "evaluate" THEN c
    ELSE ParseFrom(Step(c, CHOOSE b \in Builds : TRUE))

(***************************************************************************)
(* Vocabulary of the properties                                            *)
(***************************************************************************)
\* the tokens tokenize yields on input i before Eof, each with its literal
RECURSIVE Lex(_)
Lex(s) ==
    LET t == tokenize(s)
    IN  IF t.currentToken = "Eof" THEN <<>>
        ELSE <<<<t.currentToken, t.literal>>>> \o Lex(t)

TokensOf(i) == Lex(Scanner(i))

OperatorTokens == {"Plus", "Minus", "Mul", "Div"}

KindOf(tok) ==
    CASE tok = "Plus"  -> "PlusExpr"
      [] tok = "Minus" -> "MinusExpr"
      [] tok = "Mul"   -> "MulExpr"
      [] tok = "Div"   -> "DivExpr"

\* number literals separated by operators, and nothing else
IsChain(ts) ==
    /\ Len(ts) % 2 = 1
    /\ \A k \in 1..Len(ts) :
          IF k % 2 = 1 THEN ts[k][1] = "NumberLiteral" ELSE ts[k][1] \in OperatorTokens

Leaf(t) == NumberLiteral(DecimalValue(t[2]))

\* the operands ts[i], ts[i+2], .. ts[n] of a run of * and /, folded to the left
RECURSIVE MulRun(_, _, _)
MulRun(ts, i, n) ==
    IF n = i THEN Leaf(ts[i])
    ELSE BinaryExpr(KindOf(ts[n - 1][1]), MulRun(ts, i, n - 2), Leaf(ts[n]))

\* the tree of the chain ts[1..n]: its maximal runs of * and / are the
\* operands of its + and - nodes
RECURSIVE GroupedTree(_, _)
GroupedTree(ts, n) ==
    LET adds == {k \in 1..n : ts[k][1] \in {"Plus", "Minus"}}
    IN  IF adds = {} THEN MulRun(ts, 1, n)
        ELSE LET k == CHOOSE j \in adds : \A m \in adds : m <= j
             IN  BinaryExpr(KindOf(ts[k][1]), GroupedTree(ts, k - 1), MulRun(ts, k + 1, n))

\* what parse() makes of input i: the configuration when it returns or exits
ParseOf(i) == ParseFrom(InitCfg(i))

RECURSIVE Subtrees(_)
Subtrees(t) ==
    IF t.kind \in BinaryKinds THEN {t} \cup Subtrees(t.lhs) \cup Subtrees(t.rhs) ELSE {t}

\* the number of '(' of s[1..n] still open after s[n]
RECURSIVE OpenAfter(_, _)
OpenAfter(s, n) ==
    IF n = 0 THEN 0
    ELSE LET d == OpenAfter(s, n - 1)
         IN  CASE s[n] = "(" -> d + 1
               [] s[n] = ")" -> IF d > 0 THEN d - 1 ELSE 0
               [] OTHER -> d

\* some '(' of s has no matching ')'
HasUnmatchedOpen(s) == OpenAfter(s, Len(s)) > 0

RECURSIVE Despace(_)
Despace(s) ==
    IF s = <<>> THEN <<>>
    ELSE IF s[1] = " " THEN Despace(Tail(s)) ELSE <<s[1]>> \o Despace(Tail(s))

\* no space of s stands inside a digit run of Despace(s)
SpacesBetweenTokens(s) ==
    ~ \E i, j \in 1..Len(s) :
         /\ i + 1 < j
         /\ isdigit(s[i])
         /\ isdigit(s[j])
         /\ \A k \in (i + 1)..(j - 1) : s[k] = " "

\* what a run shows of itself
Outcome(c) == [pc |-> c.pc, expr |-> c.expr, result |-> c.result, out |-> c.out, seen |-> c.seen]

\* k '(' tokens, one number literal, k ')' tokens
IsWrappedLiteral(ts) ==
    /\ Len(ts) % 2 = 1
    /\ LET k == (Len(ts) - 1) \div 2
       IN  /\ ts[k + 1][1] = "NumberLiteral"
           /\ \A j \in 1..k : ts[j][1] = "RndOpen" /\ ts[k + 1 + j][1] = "RndClose"

WrappedValue(ts) == DecimalValue(ts[(Len(ts) + 1) \div 2][2])

(***************************************************************************)
(* Properties                                                              *)
(***************************************************************************)

\* C1: for every input ( e ) op f, parse() returns the tree that combines
\* the tree of e with the tree of f by op, and "(2 + 3) * 4" evaluates to 20.
C1_ParenthesesOverride ==
    /\ \A e \in Chains(2), op \in Operators, f \in ChainDigits :
          (input = <<"(">> \o e \o <<")", op, f>> /\ Terminated(Cfg))
          => /\ Parsed(Cfg)
             /\ expr = BinaryExpr(KindOf(TokensOf(<<op>>)[1][1]),
                                  ParseOf(e).expr, ParseOf(<<f>>).expr)
    /\ (input = <<"(", "2", " ", "+", " ", "3", ")", " ", "*", " ", "4">> /\ Terminated(Cfg))
          => result = Val(20)

\* C2: whenever parse() has returned a tree, every token of the input has
\* been consumed and the current token is Eof.
C2_WholeInputParsed ==
    Parsed(Cfg) => scanner.currentToken = "Eof" /\ scanner.offset = Len(input)

\* C3: for an input in which some '(' has no matching ')', parse() never
\* returns a tree.
C3_UnbalancedNeverParses == HasUnmatchedOpen(input) => ~Parsed(Cfg)

\* C4: a parenthesis-free chain of number literals and operators parses to
\* the tree in which each maximal run of * and / is one operand of the
\* surrounding + and - nodes, never fails with a syntax error, and
\* "2 + 3 * 4" evaluates to 14.
C4_Precedence ==
    LET ts == TokensOf(input)
    IN  /\ IsChain(ts) => /\ pc # "syntax_error"
                          /\ Parsed(Cfg) => expr = GroupedTree(ts, Len(ts))
        /\ (input = <<"2", " ", "+", " ", "3", " ", "*", " ", "4">> /\ pc \in {"print", "done"})
              => result = Val(14)

\* C4 happened: precedence decided the shape of the tree of "2 + 3 * 4".
C4_Witness ==
    /\ input = <<"2", " ", "+", " ", "3", " ", "*", " ", "4">>
    /\ pc = "done"
    /\ expr.kind = "PlusExpr"
    /\ expr.rhs.kind = "MulExpr"
    /\ result = Val(14)

\* C5: a chain a op1 b op2 c of two operators of the same level parses to
\* op2(op1(a, b), c), and "8 - 3 - 2" evaluates to 3.
C5_LeftAssociative ==
    LET ts == TokensOf(input)
        SameLevel(x, y) == (x \in {"Plus", "Minus"}) = (y \in {"Plus", "Minus"})
    IN  /\ (IsChain(ts) /\ Len(ts) = 5 /\ SameLevel(ts[2][1], ts[4][1]) /\ Parsed(Cfg))
              => expr = BinaryExpr(KindOf(ts[4][1]),
                                   BinaryExpr(KindOf(ts[2][1]), Leaf(ts[1]), Leaf(ts[3])),
                                   Leaf(ts[5]))
        /\ (input = <<"8", " ", "-", " ", "3", " ", "-", " ", "2">> /\ pc \in {"print", "done"})
              => result = Val(3)

\* C5 happened: "8 - 3 - 2" was parsed to (8 - 3) - 2 and evaluated to 3.
C5_Witness ==
    /\ input = <<"8", " ", "-", " ", "3", " ", "-", " ", "2">>
    /\ pc = "done"
    /\ expr.kind = "MinusExpr"
    /\ expr.lhs.kind = "MinusExpr"
    /\ result = Val(3)

\* C6: an input whose spaces all stand between tokens runs as the same input
\* without its spaces: the parser is given the same tokens with the same
\* literals, and the run ends the same way with the same tree, result and
\* output.
C6_WhitespaceInsensitive ==
    (SpacesBetweenTokens(input) /\ (Terminated(Cfg) \/ pc = "evaluate"))
    => /\ LET r == ParseOf(Despace(input))
          IN  seen = r.seen /\ expr = r.expr /\ Parsed(Cfg) = Parsed(r)
       /\ Terminated(Cfg)
             => \E b \in Builds : Outcome(Cfg) = Outcome(RunFrom(InitCfg(Despace(input)), b))

\* C6 happened: a run on an input with spaces before, between and after its
\* tokens has ended.
C6_Witness ==
    /\ input = <<" ", " ", "2", " ", " ", "+", " ", " ", "3", " ", " ">>
    /\ pc = "done"
    /\ result = Val(5)

\* C7: an input that is one literal of an int value n, in any number of
\* matched parenthesis pairs and with spaces around its tokens, never fails,
\* and its run evaluates to n.
C7_WrappedLiteral ==
    LET ts == TokensOf(input)
    IN  (IsWrappedLiteral(ts) /\ InRange(WrappedValue(ts)))
        => /\ pc \notin {"syntax_error", "fatal"}
           /\ Parsed(Cfg) => expr = NumberLiteral(WrappedValue(ts))
           /\ pc \in {"print", "done"} => result = Val(WrappedValue(ts))

\* C7 happened: a literal in two pairs of parentheses, with spaces, was
\* evaluated.
C7_Witness ==
    /\ input = <<" ", "(", "(", " ", "4", "2", " ", ")", ")", " ">>
    /\ pc = "done"
    /\ result = Val(42)

\* C8: a step of primaryExpr entered on a token that is neither NumberLiteral
\* nor '(' ends the run in the syntax-error exit with no tree returned, the
\* exit is final, and the empty input and "+" never get a tree.
C8_PrimaryExpected ==
    /\ [][(In(Cfg, "primaryExpr", "enter")
            /\ currentToken(Cfg) \notin {"NumberLiteral", "RndOpen"})
          => (pc' = "syntax_error" /\ expr' = Null /\ result' = NoResult /\ out' = <<>>)]_vars
    /\ [][pc # "syntax_error"]_vars
    /\ [](input \in {<<>>, <<"+">>} => ~Parsed(Cfg) /\ pc # "fatal")

\* C8 happened: the run on "+" ended in primaryExpr's syntax-error exit.
C8_Witness ==
    /\ input = <<"+">>
    /\ pc = "syntax_error"
    /\ Top(Cfg).fn = "primaryExpr"
    /\ Top(Cfg).at = "enter"
    /\ expr = Null

\* C9: once a tree with a Divide node whose right operand evaluates to 0 has
\* been evaluated, the run is in the fatal state with no result and no
\* "Result:" line.
C9_DivisionByZeroFatal ==
    (/\ expr # Null
     /\ pc # "evaluate"
     /\ \E t \in Subtrees(expr) :
           t.kind = "DivExpr" /\ \A b \in Builds : evaluate(t.rhs, b) = Val(0))
    => pc = "fatal" /\ result.kind # "value" /\ out = <<>>

\* C10: in every tree parse() returns, on every build, a node whose operands
\* have values and whose own result is an int has the value of its own
\* operator: the sum for Add, the difference for Subtract, the product for
\* Multiply, and for Divide by a non-zero operand the quotient rounded toward
\* zero; the result of the run is the value of the tree, and "7 / 2"
\* evaluates to 3.
C10_OperatorPerKind ==
    /\ expr # Null =>
          \A b \in Builds : \A t \in Subtrees(expr) :
             t.kind \in BinaryKinds =>
                LET l == evaluate(t.lhs, b)
                    r == evaluate(t.rhs, b)
                    v == evaluate(t, b)
                IN  (l.kind = "value" /\ r.kind = "value") =>
                       /\ (t.kind = "PlusExpr" /\ InRange(l.v + r.v)) => v = Val(l.v + r.v)
                       /\ (t.kind = "MinusExpr" /\ InRange(l.v - r.v)) => v = Val(l.v - r.v)
                       /\ (t.kind = "MulExpr" /\ InRange(l.v * r.v)) => v = Val(l.v * r.v)
                       /\ (t.kind = "DivExpr" /\ r.v # 0 /\ ~(l.v = INT_MIN /\ r.v = 0 - 1)) =>
                             /\ v.kind = "value"
                             /\ Abs(v.v) * Abs(r.v) <= Abs(l.v)
                             /\ Abs(l.v) < (Abs(v.v) + 1) * Abs(r.v)
                             /\ v.v > 0 => (l.v < 0) = (r.v < 0)
                             /\ v.v < 0 => (l.v < 0) # (r.v < 0)
    /\ pc \in {"print", "done"} =>
          /\ \E b \in Builds : result = evaluate(expr, b)
          /\ out[1] = Line(0, "Result: ", <<result.v>>)
    /\ (input = <<"7", " ", "/", " ", "2">> /\ pc \in {"print", "done"}) => result = Val(3)

\* C10 happened: "7/(0-2)" was evaluated, its quotient rounded toward zero.
C10_Witness ==
    /\ input = <<"7", "/", "(", "0", "-", "2", ")">>
    /\ pc = "done"
    /\ expr.kind = "DivExpr"
    /\ result = Val(0 - 3)

\* C11: in a run that ended in the syntax-error exit nothing was written to
\* the output, evaluated or returned by parse(); and whenever something has
\* been written, parsing is over: no parser call is in progress and main is
\* past its evaluate step.
C11_NoOutputOnSyntaxError ==
    /\ pc = "syntax_error" => out = <<>> /\ result = NoResult /\ expr = Null
    /\ out # <<>> => pc \in {"print", "done"} /\ stack = <<>> /\ expr # Null

\* C11 happened: "(2 + 3" ended in consumeToken's syntax-error exit.
C11_Witness ==
    /\ input = <<"(", "2", " ", "+", " ", "3">>
    /\ pc = "syntax_error"
    /\ Top(Cfg).fn = "primaryExpr"
    /\ Top(Cfg).at = "close"
    /\ out = <<>>

\* some character of s is no digit, no space and none of + - * / ( )
HasUnrecognized(s) ==
    \E k \in 1..Len(s) : ~isdigit(s[k]) /\ s[k] \notin {" ", "+", "-", "*", "/", "(", ")"}

\* C12: for an input with an unrecognized character parse() returns no tree
\* (the run can then only end in an error exit).
C12_UnrecognizedNeverParses == HasUnrecognized(input) => ~Parsed(Cfg)

\* the trees of a configuration: main's and those the parser calls hold
TreesOf(c) == {c.expr} \cup {c.stack[k].lhs : k \in 1..Len(c.stack)}

\* C13: a step of primaryExpr on a NumberLiteral whose digit run is no int
\* ends the run in the fatal state with no tree, nothing following it; and no
\* NumberLiteral node ever holds anything but the int value of a digit run
\* the scanner delivered.
C13_OutOfRangeLiteralFatal ==
    /\ [][(/\ In(Cfg, "primaryExpr", "enter")
           /\ currentToken(Cfg) = "NumberLiteral"
           /\ DecimalValue(scanner.literal) > INT_MAX)
          => (pc' = "fatal" /\ expr' = Null /\ stack' = stack /\ out' = <<>>)]_vars
    /\ [][pc # "fatal"]_vars
    /\ [](\A t \in TreesOf(Cfg) : \A n \in Subtrees(t) :
            n.kind = "NumberLiteral" =>
               /\ 0 <= n.literal /\ n.literal <= INT_MAX
               /\ \E k \in 1..Len(seen) :
                     seen[k][1] = "NumberLiteral" /\ DecimalValue(seen[k][2]) = n.literal)

\* C13 happened: the run on "999" was ended by stoi.
C13_Witness ==
    /\ input = <<"9", "9", "9">>
    /\ pc = "fatal"
    /\ Top(Cfg).fn = "primaryExpr"
    /\ expr = Null

\* what the latest call on the scanner returned
Returned(log) == log[Len(log)][1]

\* C14: a tokenizeOnce call that does not return Eof advances the cursor by at
\* least one character; a call at the end of the input returns Eof and leaves
\* the cursor where it is, and only such a call returns Eof; the cursor never
\* passes the end of the input; after more calls than the input has
\* characters the scanner has returned Eof, and once it has, every call
\* returns Eof.
C14_ScanningProgresses ==
    /\ [][TokenizeOnceCall =>
            /\ Returned(seen') # "Eof" => scanner'.offset >= scanner.offset + 1
            /\ eof(scanner) => Returned(seen') = "Eof" /\ scanner'.offset = scanner.offset
            /\ Returned(seen') = "Eof" => eof(scanner)]_vars
    /\ [](scanner.offset <= Len(input))
    /\ [](Len(seen) > Len(input) => Returned(seen) = "Eof")
    /\ [][(Returned(seen) = "Eof" /\ seen' # seen) => Returned(seen') = "Eof"]_vars

\* C14 happened: "0 $" was scanned call by call, through a space and an
\* unrecognized character, to Eof and once more.
C14_Witness ==
    /\ pc = "scan"
    /\ input = <<"0", " ", "$">>
    /\ seen = <<<<"NumberLiteral", <<"0">>>>, <<"Whitespace", <<>>>>, <<"Illegal", <<>>>>,
                <<"Eof", <<>>>>, <<"Eof", <<>>>>>>
    /\ scanner.offset = 3

\* C15: from the end of the Scanner's constructor on, the current token is a
\* token of the enumeration other than Whitespace, and so is every token the
\* parser was ever given.
C15_WhitespaceNeverExposed ==
    pc # "start" =>
        /\ scanner.currentToken \in Tokens \ {"Whitespace"}
        /\ \A k \in 1..Len(seen) : seen[k][1] \in Tokens \ {"Whitespace"}

\* C15 happened: the constructor's tokenize skipped the two leading spaces of
\* "  2  +  3  ".
C15_Witness ==
    /\ input = <<" ", " ", "2", " ", " ", "+", " ", " ", "3", " ", " ">>
    /\ pc = "parse"
    /\ scanner.currentToken = "NumberLiteral"
    /\ scanner.offset = 3

\* C16: after every tokenize call the literal is non-empty exactly when the
\* current token is NumberLiteral, and then it is the run of digits of the
\* input that ends at the cursor, starts where the token starts (no digit
\* before it) and is maximal (no digit at the cursor).
C16_LiteralOfNumber ==
    pc # "start" =>
        LET s == scanner
            start == s.offset - Len(s.literal)
        IN  /\ (s.literal # <<>>) = (s.currentToken = "NumberLiteral")
            /\ s.currentToken = "NumberLiteral" =>
                  /\ start >= 0
                  /\ s.literal = SubSeq(s.input, start + 1, s.offset)
                  /\ \A k \in 1..Len(s.literal) : isdigit(s.literal[k])
                  /\ s.offset = Len(s.input) \/ ~isdigit(s.input[s.offset + 1])
                  /\ start = 0 \/ ~isdigit(s.input[start])

\* C16 happened: the literal "42" of " (( 42 )) " is the current token.
C16_Witness ==
    /\ input = <<" ", "(", "(", " ", "4", "2", " ", ")", ")", " ">>
    /\ scanner.currentToken = "NumberLiteral"
    /\ scanner.literal = <<"4", "2">>
    /\ scanner.offset = 6

LabelTexts == {"expr:", "lhs:", "rhs:"}

KindText(kind) ==
    CASE kind = "PlusExpr"  -> "PlusExpr:"
      [] kind = "MinusExpr" -> "MinusExpr:"
      [] kind = "MulExpr"   -> "MulExpr:"
      [] kind = "DivExpr"   -> "DivExpr:"

\* the lines of a tree under a label line of the given indentation: the label
\* line, two spaces deeper the line of the node (its kind, or its literal),
\* and four spaces deeper than the label the left and then the right child
RECURSIVE Rendered(_, _, _)
Rendered(t, labelText, indent) ==
    <<[indent |-> indent, text |-> labelText, args |-> <<>>]>>
    \o (IF t.kind = "NumberLiteral"
        THEN <<[indent |-> indent + 2, text |-> "NumberLiteral: ", args |-> <<t.literal>>]>>
        ELSE <<[indent |-> indent + 2, text |-> KindText(t.kind), args |-> <<>>]>>
             \o Rendered(t.lhs, "lhs:", indent + 4)
             \o Rendered(t.rhs, "rhs:", indent + 4))

\* the label line of the parent of the node whose label line is lines[j]
ParentLabel(lines, j) ==
    CHOOSE p \in 1..(j - 1) :
        /\ lines[p].text \in LabelTexts
        /\ lines[p].indent < lines[j].indent
        /\ \A q \in (p + 1)..(j - 1) :
              ~(lines[q].text \in LabelTexts /\ lines[q].indent < lines[j].indent)

\* C17 as stated: in the printed tree the label line of a child is indented
\* exactly two spaces more than the label line of its parent.
C17_ChildLabelTwoDeeper ==
    pc = "done" =>
        \A j \in 1..Len(out) :
            out[j].text \in {"lhs:", "rhs:"} =>
                out[j].indent = out[ParentLabel(out, j)].indent + 2

\* C17 as amended: the printed tree is in pre-order, the label line of the
\* root at indentation 0 first, the line of a node two spaces deeper than its
\* label line, the children of a binary node labelled lhs then rhs with all
\* lines of lhs before all lines of rhs, and the label line of a child four
\* spaces deeper than the label line of its parent.
C17_PrintLayout ==
    pc = "done" =>
        /\ Tail(out) = Rendered(expr, "expr:", 0)
        /\ \A j \in 1..Len(out) :
              out[j].text \in {"lhs:", "rhs:"} =>
                  out[j].indent = out[ParentLabel(out, j)].indent + 4

\* C17 happened: the tree of "8 - 3 - 2", two binary nodes deep, was printed.
C17_Witness ==
    /\ input = <<"8", " ", "-", " ", "3", " ", "-", " ", "2">>
    /\ pc = "done"
    /\ out[2] = Line(0, "expr:", <<>>)
    /\ out[4] = Line(4, "lhs:", <<>>)
    /\ out[6] = Line(8, "lhs:", <<>>)

\* a finite tree whose binary nodes have two built children and whose leaves
\* are NumberLiteral nodes
RECURSIVE WellFormed(_)
WellFormed(t) ==
    \/ /\ t.kind = "NumberLiteral"
       /\ DOMAIN t = {"kind", "literal"}
       /\ t.literal \in 0..INT_MAX
    \/ /\ t.kind \in BinaryKinds
       /\ DOMAIN t = {"kind", "lhs", "rhs"}
       /\ WellFormed(t.lhs)
       /\ WellFormed(t.rhs)

\* C18: every tree parse() returns is finite, its binary nodes have two
\* non-null fully built children and its leaves are NumberLiteral nodes (and
\* so is every tree a parser function holds while parsing); main holds a tree
\* exactly when parse() has returned, and in a run that ends in a syntax
\* error main holds no tree and evaluate and print have not run.
C18_NoPartialTree ==
    /\ expr # Null => WellFormed(expr)
    /\ \A k \in 1..Len(stack) : stack[k].lhs # Null => WellFormed(stack[k].lhs)
    /\ pc \in {"evaluate", "print", "done"} => expr # Null
    /\ pc = "syntax_error" => expr = Null /\ result = NoResult /\ out = <<>>

\* C18 happened: "0+(" ended in a syntax error while addExpr held the tree of
\* its left operand, and main got no tree.
C18_Witness ==
    /\ input = <<"0", "+", "(">>
    /\ pc = "syntax_error"
    /\ expr = Null
    /\ \E k \in 1..Len(stack) : stack[k].lhs = NumberLiteral(0)

\* the tokens not yet consumed by a parser whose scanner is s: the current
\* one unless it is Eof, and those tokenize would still deliver
Unconsumed(s) ==
    Len(Lex(s)) + (IF s.currentToken \in {"Eof", "Undefined"} THEN 0 ELSE 1)

\* the parser is about to run one more iteration of the loop of addExpr or of
\* mulExpr, or to descend through '('
AboutToIterateOrDescend ==
    \/ In(Cfg, "addExpr", "loop") /\ currentToken(Cfg) \in {"Plus", "Minus"}
    \/ In(Cfg, "mulExpr", "loop") /\ currentToken(Cfg) \in {"Mul", "Div"}
    \/ In(Cfg, "primaryExpr", "enter") /\ currentToken(Cfg) = "RndOpen"

CursorNeverDecreases == [][scanner'.offset >= scanner.offset]_vars

IterationConsumes ==
    [][AboutToIterateOrDescend =>
          /\ Len(stack') = Len(stack) + 1
          /\ Unconsumed(scanner') < Unconsumed(scanner)]_vars

\* what the running parser function still has to enter before it reads a
\* token: addExpr enters mulExpr, which enters primaryExpr
Pending(frames) ==
    IF frames # <<>> /\ frames[Len(frames)].at = "enter"
    THEN CASE frames[Len(frames)].fn = "addExpr" -> 4
           [] frames[Len(frames)].fn = "mulExpr" -> 2
           [] OTHER -> 0
    ELSE 0

\* a bound on the parser steps still to come: at most six for each token not
\* yet consumed, besides the entries pending and the returns of the calls open
Measure(s, frames) == 6 * Unconsumed(s) + Pending(frames) + Len(frames)

MeasureDecreases ==
    [][pc = "parsing" /\ pc' = "parsing" =>
          Measure(scanner', stack') < Measure(scanner, stack)]_vars

\* while parse() runs, a parser function is at one of its statements
ParserRunning ==
    pc = "parsing" =>
        \/ In(Cfg, "addExpr", "enter") \/ In(Cfg, "addExpr", "loop")
        \/ In(Cfg, "mulExpr", "enter") \/ In(Cfg, "mulExpr", "loop")
        \/ In(Cfg, "primaryExpr", "enter") \/ In(Cfg, "primaryExpr", "close")

\* the step on which stoi throws std::out_of_range inside primaryExpr and
\* nothing catches it
AbortsInStoi ==
    /\ In(Cfg, "primaryExpr", "enter")
    /\ currentToken(Cfg) = "NumberLiteral"
    /\ stoi(scanner.literal).thrown
    /\ pc' = "fatal"
    /\ expr' = Null

\* C19 as stated: the scanner cursor never decreases, every loop iteration
\* of addExpr and mulExpr and every descent through '(' consumes a token
\* before it recurses, every step of parse() lowers a bound on the steps left,
\* and parse() ends in one of two ways only: it returns a tree or it reaches
\* a syntax-error exit.
C19_TreeOrSyntaxError ==
    /\ CursorNeverDecreases
    /\ IterationConsumes
    /\ MeasureDecreases
    /\ [](ParserRunning)
    /\ [][pc = "parsing" => pc' \in {"parsing", "evaluate", "syntax_error"}]_vars

\* C19 as amended: the same, with the third way parse() ends: aborted by the
\* uncaught std::out_of_range of stoi on a literal beyond INT_MAX.
C19_ParsingTerminates ==
    /\ CursorNeverDecreases
    /\ IterationConsumes
    /\ MeasureDecreases
    /\ [](ParserRunning)
    /\ [][pc = "parsing" =>
             \/ pc' \in {"parsing", "evaluate", "syntax_error"}
             \/ AbortsInStoi]_vars

\* C19 happened: parse() returned the tree of "7/(0-2)" after an iteration of
\* each loop and a descent through '(', the cursor at the end of the input.
C19_Witness ==
    /\ input = <<"7", "/", "(", "0", "-", "2", ")">>
    /\ pc = "evaluate"
    /\ scanner.offset = Len(input)
    /\ expr = BinaryExpr("DivExpr", NumberLiteral(7),
                         BinaryExpr("MinusExpr", NumberLiteral(0), NumberLiteral(2)))

\* the node kinds evaluate dispatches on before its fallback line
DispatchedKinds == {"PlusExpr", "MinusExpr", "MulExpr", "DivExpr", "NumberLiteral"}

\* what the operator() of a binary node makes of the values of its children
Combined(kind, l, r, b) ==
    CASE kind = "PlusExpr"  -> Arith(l + r, b)
      [] kind = "MinusExpr" -> Arith(l - r, b)
      [] kind = "MulExpr"   -> Arith(l * r, b)
      [] kind = "DivExpr"   -> Divide(l, r, b)

\* C20: once parse() has returned, every node evaluate visits is a PlusExpr,
\* MinusExpr, MulExpr, DivExpr or NumberLiteral, so the fallback line of
\* evaluate is never taken; a node evaluates to -1 only as the outcome of the
\* arithmetic of a binary node on the values of its children.
C20_FallbackUnreachable ==
    Parsed(Cfg) =>
        \A t \in Subtrees(expr) :
            /\ t.kind \in DispatchedKinds
            /\ \A b \in Builds :
                  evaluate(t, b) = Val(0 - 1) =>
                      /\ t.kind \in BinaryKinds
                      /\ evaluate(t.lhs, b).kind = "value"
                      /\ evaluate(t.rhs, b).kind = "value"
                      /\ Combined(t.kind, evaluate(t.lhs, b).v, evaluate(t.rhs, b).v, b)
                            = Val(0 - 1)

\* C20 happened: "2-3" was evaluated to -1, by the subtraction.
C20_Witness ==
    /\ input = <<"2", "-", "3">>
    /\ pc = "done"
    /\ expr = BinaryExpr("MinusExpr", NumberLiteral(2), NumberLiteral(3))
    /\ result = Val(0 - 1)

====
